---- MODULE Spec2Model ----
(***************************************************************************)
(* A model of the two key-value engines of the repository:                 *)
(*   - lsm_tree.LSMTree   (write-ahead log, memtable, SSTable files),       *)
(*   - bplus_tree.BPlusTree (nodes, splits, leaf chain),                    *)
(*   - the in-memory LSMTree of app.py (tombstones written by delete).      *)
(* Python strings are sequences of one-character strings, a dict (or        *)
(* OrderedDict) is a sequence of <<key, value>> pairs in insertion order,   *)
(* Python list indices are shifted by one (TLA+ sequences start at 1).      *)
(***************************************************************************)
EXTENDS Integers, Sequences, FiniteSets, TLC

\* ------------------------------------------------------------------ bounds
\* Number of insert calls made on the file-backed LSM engine.
MaxOps == 4
\* Last reading of the millisecond clock (readings are 0..MaxTime).
MaxTime == 2
\* Largest max_memtable_size an engine is constructed with.
MaxMemtable == 2
\* Number of insert calls the threads make on the file-backed LSM engine.
MaxThreadCalls == 2
\* Number of calls on the file-backed LSM engine that meet an I/O failure.
MaxFaults == 1

\* ----------------------------------------------------------------- strings
NL == "\n"
COLON == ":"
Whitespace == {" ", "\t", "\n", "\r"}

\* Python's None; no string is equal to it.
None == <<"None">>

\* Code points of the characters the model uses (str comparison is by code point).
CharCode(c) ==
    CASE c = "\n" -> 10
      [] c = " " -> 32
      [] c = "." -> 46
      [] c = "0" -> 48
      [] c = "1" -> 49
      [] c = "2" -> 50
      [] c = "3" -> 51
      [] c = "4" -> 52
      [] c = "5" -> 53
      [] c = "6" -> 54
      [] c = "7" -> 55
      [] c = "8" -> 56
      [] c = "9" -> 57
      [] c = ":" -> 58
      [] c = "_" -> 95
      [] c = "a" -> 97
      [] c = "b" -> 98
      [] c = "c" -> 99
      [] c = "e" -> 101
      [] c = "j" -> 106
      [] c = "l" -> 108
      [] c = "m" -> 109
      [] c = "n" -> 110
      [] c = "o" -> 111
      [] c = "p" -> 112
      [] c = "s" -> 115
      [] c = "t" -> 116
      [] c = "x" -> 120
      [] c = "y" -> 121
      [] OTHER -> 0

\* s < t for Python strings: lexicographic by code point, a proper prefix is smaller.
RECURSIVE StrLess(_, _)
StrLess(s, t) ==
    IF t = <<>> THEN FALSE
    ELSE IF s = <<>> THEN TRUE
    ELSE IF CharCode(Head(s)) < CharCode(Head(t)) THEN TRUE
    ELSE IF CharCode(Head(s)) > CharCode(Head(t)) THEN FALSE
    ELSE StrLess(Tail(s), Tail(t))

StrLeq(s, t) == s = t \/ StrLess(s, t)

\* Keys and values the callers pass to the LSM engines.
Keys == { <<"a">>, <<"b">>, <<"a", ":", "b">> }
Values == { <<"x">>, <<"y">> }

\* --------------------------------------------------------- dict operations
DictKeys(d) == { d[i][1] : i \in DOMAIN d }
DictHas(d, k) == \E i \in DOMAIN d : d[i][1] = k
DictGet(d, k) == d[CHOOSE i \in DOMAIN d : d[i][1] = k][2]
\* d[k] = v: an existing key keeps its position, a new key goes last.
DictSet(d, k, v) ==
    IF DictHas(d, k)
    THEN [i \in DOMAIN d |-> IF d[i][1] = k THEN <<k, v>> ELSE d[i]]
    ELSE Append(d, <<k, v>>)
\* d.update(e)
RECURSIVE DictUpdate(_, _)
DictUpdate(d, e) ==
    IF e = <<>> THEN d
    ELSE DictUpdate(DictSet(d, Head(e)[1], Head(e)[2]), Tail(e))

\* -------------------------------------------------------------------- state
\* lsm_tree.LSMTree and its storage, the clock, and the history of the calls.
VARIABLES
    memtable,           \* self.memtable: OrderedDict
    sstables,           \* self.sstables: file names, head first
    wal,                \* contents of wal.log as characters (<<>>: no file)
    disk,               \* the files of sstable_dir: name -> stored mapping
    max_memtable_size,  \* self.max_memtable_size
    now,                \* int(time.time() * 1000)
    latest,             \* history: key -> value of its most recent insert
    inserts,            \* history: number of insert calls so far
    flushLog,           \* history: the ordinals of the inserts that flushed
    allDistinct,        \* history: every insert so far was of a new key
    compacted,          \* history: compact has been called
    collided,           \* history: a snapshot was written under a name in use
    lsm_error,          \* history: what the last call raised, "ok" for nothing
    faults,             \* history: number of calls that met an I/O failure
    crashed,            \* the process died; memtable and sstables are lost
    pc,                 \* thread -> the statement of insert it is about to run
    frame,              \* thread -> the locals of its call: key, value, sstable_name
    other_memtable,     \* self.memtable of a second instance, which was given
    other_sstables,     \*   another sstable_dir; its self.sstables
    other_disk          \* the files of that other sstable_dir

\* The second instance shares wal.log: self.wal_file does not depend on sstable_dir.
otherVars == <<other_memtable, other_sstables, other_disk>>

lsmVars == <<memtable, sstables, wal, disk, max_memtable_size, now,
             latest, inserts, flushLog, allDistinct, compacted, collided,
             lsm_error, faults, crashed, pc, frame, otherVars>>

\* bplus_tree.BPlusTree: the nodes live in an arena, a node is named by its
\* position in it and 0 stands for None.
VARIABLES
    nodes,      \* the Node objects: keys, values, children, is_leaf, next
    root,       \* self.root
    degree,     \* self.degree
    stored,     \* history: key -> value of its most recent insert, None after
                \*          a delete of it that returned without an error
    puts,       \* history: number of insert calls so far
    tree_error, \* history: the exception the last call raised, "ok" for none
    deletes     \* history: number of delete calls so far

treeVars == <<nodes, root, degree, stored, puts, tree_error, deletes>>

\* app.LSMTree
VARIABLES
    app_memtable,           \* self.memtable: dict, None marks a deleted key
    app_sstables,           \* self.sstables: list of dicts, appended at the end
    app_max_memtable_size,  \* self.max_memtable_size
    app_latest,             \* history: key -> value of its latest insert, None
                            \*          after its delete or when never written
    app_ops                 \* history: number of insert and delete calls so far

appVars == <<app_memtable, app_sstables, app_max_memtable_size, app_latest, app_ops>>

\* ------------------------------------------ lsm_tree.LSMTree: operations
\* The engine and its storage as one value.
Engine == [memtable |-> memtable, sstables |-> sstables, wal |-> wal, disk |-> disk]

\* File names: sstable_<ts>.json and sstable_compact_<ts>.json.
FlushName(t) == [compact |-> FALSE, ts |-> t]
CompactName(t) == [compact |-> TRUE, ts |-> t]

\* open(name, 'w'); json.dump(data, f): creates or overwrites the file.
WriteFile(d, name, data) ==
    [n \in (DOMAIN d) \cup {name} |-> IF n = name THEN data ELSE d[n]]
\* os.remove(name), OSError ignored.
RemoveFile(d, name) == [n \in (DOMAIN d) \ {name} |-> d[n]]
RECURSIVE RemoveFiles(_, _)
RemoveFiles(d, names) ==
    IF names = <<>> THEN d ELSE RemoveFiles(RemoveFile(d, Head(names)), Tail(names))

\* f.write(f"{key}:{value}\n")
WalLine(key, value) == key \o <<COLON>> \o value \o <<NL>>

\* _flush_memtable at clock reading t.
LSMTree_flush_memtable(s, t) ==
    IF s.memtable = <<>> THEN s
    ELSE [memtable |-> <<>>,
          sstables |-> <<FlushName(t)>> \o s.sstables,
          wal |-> <<>>,
          disk |-> WriteFile(s.disk, FlushName(t), s.memtable)]

\* insert(key, value) at clock reading t with max_memtable_size m.
LSMTree_insert(s, key, value, m, t) ==
    LET s1 == [s EXCEPT !.wal = s.wal \o WalLine(key, value),
                        !.memtable = DictSet(s.memtable, key, value)]
    IN IF Len(s1.memtable) >= m THEN LSMTree_flush_memtable(s1, t) ELSE s1

\* The mapping every reader sees in a file whose JSON text was cut short:
\* json.load raises JSONDecodeError and get, range_query and compact skip the file.
Unreadable == <<>>

\* insert with the memtable set before the append to the log.
LSMTree_insert_memtable_first(s, key, value, written) ==
    [s EXCEPT !.memtable = DictSet(s.memtable, key, value),
              !.wal = s.wal \o SubSeq(WalLine(key, value), 1, written)]

\* insert when the append to wal.log raises IOError after `written` characters
\* of the line reached the file (0: open failed); insert re-raises.
LSMTree_insert_wal_fails(s, key, value, written) ==
    [s EXCEPT !.wal = s.wal \o SubSeq(WalLine(key, value), 1, written)]

\* _flush_memtable at clock reading t when writing the SSTable raises IOError:
\* at open (no file) or inside json.dump (partial: the file holds a cut text).
LSMTree_flush_memtable_fails(s, t, partial) ==
    IF partial THEN [s EXCEPT !.disk = WriteFile(s.disk, FlushName(t), Unreadable)]
    ELSE s

\* insert(key, value) at clock reading t when the flush it starts raises.
LSMTree_insert_flush_fails(s, key, value, t, partial) ==
    LET s1 == [s EXCEPT !.wal = s.wal \o WalLine(key, value),
                        !.memtable = DictSet(s.memtable, key, value)]
    IN LSMTree_flush_memtable_fails(s1, t, partial)

\* get(key): memtable, then the SSTables in list order; a missing file is skipped.
RECURSIVE GetFromSSTables(_, _, _)
GetFromSSTables(d, names, key) ==
    IF names = <<>> THEN None
    ELSE IF Head(names) \in DOMAIN d /\ DictHas(d[Head(names)], key)
         THEN DictGet(d[Head(names)], key)
         ELSE GetFromSSTables(d, Tail(names), key)

LSMTree_get(s, key) ==
    IF DictHas(s.memtable, key) THEN DictGet(s.memtable, key)
    ELSE GetFromSSTables(s.disk, s.sstables, key)

\* clear(): memtable and list emptied, wal.log and every sstable_*.json of the
\* directory removed.
LSMTree_clear(s) == [memtable |-> <<>>, sstables |-> <<>>, wal |-> <<>>, disk |-> <<>>]

\* The loop of compact: merged.update(data) for each readable SSTable of names.
RECURSIVE MergeSSTables(_, _, _)
MergeSSTables(d, names, merged) ==
    IF names = <<>> THEN merged
    ELSE MergeSSTables(d, Tail(names),
                       IF Head(names) \in DOMAIN d
                       THEN DictUpdate(merged, d[Head(names)]) ELSE merged)

Reverse(q) == [i \in 1..Len(q) |-> q[Len(q) + 1 - i]]

\* compact() at clock reading t.
LSMTree_compact(s, t) ==
    IF Len(s.sstables) <= 1 THEN s
    ELSE LET merged == MergeSSTables(s.disk, Reverse(s.sstables), <<>>)
             written == WriteFile(s.disk, CompactName(t), merged)
         IN [s EXCEPT !.disk = RemoveFiles(written, s.sstables),
                      !.sstables = <<CompactName(t)>>]

\* The (key, value) pairs of d with start_key <= key <= end_key, in d's order.
RECURSIVE ItemsInRange(_, _, _)
ItemsInRange(d, start_key, end_key) ==
    IF d = <<>> THEN <<>>
    ELSE (IF StrLeq(start_key, Head(d)[1]) /\ StrLeq(Head(d)[1], end_key)
          THEN <<Head(d)>> ELSE <<>>) \o ItemsInRange(Tail(d), start_key, end_key)

RECURSIVE RangeFromSSTables(_, _, _, _)
RangeFromSSTables(d, names, start_key, end_key) ==
    IF names = <<>> THEN <<>>
    ELSE (IF Head(names) \in DOMAIN d
          THEN ItemsInRange(d[Head(names)], start_key, end_key) ELSE <<>>)
         \o RangeFromSSTables(d, Tail(names), start_key, end_key)

\* range_query(start_key, end_key): a list of (key, value) pairs.
LSMTree_range_query(s, start_key, end_key) ==
    ItemsInRange(s.memtable, start_key, end_key)
        \o RangeFromSSTables(s.disk, s.sstables, start_key, end_key)

\* The lines of a text file: split after every "\n" (the "\n" itself dropped here,
\* line.strip() removes it).
RECURSIVE SplitLines(_, _, _)
SplitLines(w, i, cur) ==
    IF i > Len(w) THEN (IF cur = <<>> THEN <<>> ELSE <<cur>>)
    ELSE IF w[i] = NL THEN <<cur>> \o SplitLines(w, i + 1, <<>>)
    ELSE SplitLines(w, i + 1, Append(cur, w[i]))

\* str.strip()
RECURSIVE LStrip(_)
LStrip(s) == IF s # <<>> /\ Head(s) \in Whitespace THEN LStrip(Tail(s)) ELSE s
RECURSIVE RStrip(_)
RStrip(s) ==
    IF s # <<>> /\ s[Len(s)] \in Whitespace THEN RStrip(SubSeq(s, 1, Len(s) - 1)) ELSE s
Strip(s) == RStrip(LStrip(s))

\* Position of the first ":" of s, 0 when there is none (split(':', 1) then gives
\* one part and the unpacking raises ValueError).
FirstColon(s) ==
    IF \E i \in DOMAIN s : s[i] = COLON
    THEN CHOOSE i \in DOMAIN s : s[i] = COLON /\ \A j \in 1..(i - 1) : s[j] # COLON
    ELSE 0

RECURSIVE ReplayLines(_, _)
ReplayLines(lines, mem) ==
    IF lines = <<>> THEN mem
    ELSE LET s == Strip(Head(lines))
             c == FirstColon(s)
         IN ReplayLines(Tail(lines),
                        IF c = 0 THEN mem
                        ELSE DictSet(mem, SubSeq(s, 1, c - 1), SubSeq(s, c + 1, Len(s))))

\* _recover_from_wal: the memtable a new instance builds from the log w.
LSMTree_recover_from_wal(w) == ReplayLines(SplitLines(w, 1, <<>>), <<>>)

\* str(timestamp): the decimal digits of a natural number.
RECURSIVE Digits(_)
Digits(n) ==
    LET digit == <<"0", "1", "2", "3", "4", "5", "6", "7", "8", "9">>[(n % 10) + 1]
    IN IF n < 10 THEN <<digit>> ELSE Append(Digits(n \div 10), digit)

\* The file name as a string: f"sstable_{ts}.json" or f"sstable_compact_{ts}.json"
\* (the directory part is the same for all of them).
NameString(name) ==
    <<"s", "s", "t", "a", "b", "l", "e", "_">>
        \o (IF name.compact THEN <<"c", "o", "m", "p", "a", "c", "t", "_">> ELSE <<>>)
        \o Digits(name.ts) \o <<".", "j", "s", "o", "n">>

\* sorted(names, reverse=True): descending by str comparison of the names.
RECURSIVE SortedReverse(_)
SortedReverse(names) ==
    IF names = {} THEN <<>>
    ELSE LET n == CHOOSE x \in names :
                      \A y \in names : StrLeq(NameString(y), NameString(x))
         IN <<n>> \o SortedReverse(names \ {n})

\* _load_existing_sstables: every file of the directory matches sstable_*.json.
LSMTree_load_existing_sstables(d) == SortedReverse(DOMAIN d)

\* LSMTree(...) constructed over the storage of s: the memtable comes from the
\* log, the list from the directory.
LSMTree_init(s) ==
    [memtable |-> LSMTree_recover_from_wal(s.wal),
     sstables |-> LSMTree_load_existing_sstables(s.disk),
     wal |-> s.wal,
     disk |-> s.disk]

\* insert(key, value) at clock reading t when the process dies inside the flush
\* it starts: while the SSTable is being written (the file holds a cut text), or
\* after it was written and before wal.log is removed. What survives is storage.
LSMTree_insert_crashes(s, key, value, t, written) ==
    LET s1 == [s EXCEPT !.wal = s.wal \o WalLine(key, value),
                        !.memtable = DictSet(s.memtable, key, value)]
    IN [memtable |-> <<>>,
        sstables |-> <<>>,
        wal |-> s1.wal,
        disk |-> WriteFile(s1.disk, FlushName(t),
                           IF written THEN s1.memtable ELSE Unreadable)]

\* ------------------------------------------------- lsm_tree.LSMTree: steps
\* The threads that call insert on one instance, and the locals of a call.
Threads == {1, 2}
NoFrame == [key |-> None, value |-> None, sstable_name |-> None]

\* The state right after LSMTree(max_memtable_size = m) on empty storage.
LsmFresh(m) ==
    /\ memtable = <<>>
    /\ sstables = <<>>
    /\ wal = <<>>
    /\ disk = <<>>
    /\ max_memtable_size = m
    /\ now = 0
    /\ latest = [k \in Keys |-> None]
    /\ inserts = 0
    /\ flushLog = <<>>
    /\ allDistinct = TRUE
    /\ compacted = FALSE
    /\ collided = FALSE
    /\ lsm_error = "ok"
    /\ faults = 0
    /\ crashed = FALSE
    /\ pc = [t \in Threads |-> "idle"]
    /\ frame = [t \in Threads |-> NoFrame]
    /\ other_memtable = <<>>
    /\ other_sstables = <<>>
    /\ other_disk = <<>>

LsmInit == \E m \in 1..MaxMemtable : LsmFresh(m)

\* name is a file of the directory or an entry of the SSTable list.
NameInUse(name) == name \in DOMAIN disk \/ \E i \in DOMAIN sstables : sstables[i] = name

SetEngine(s) ==
    /\ memtable' = s.memtable
    /\ sstables' = s.sstables
    /\ wal' = s.wal
    /\ disk' = s.disk

Insert(key, value) ==
    /\ ~crashed
    /\ inserts < MaxOps
    /\ LET s == LSMTree_insert(Engine, key, value, max_memtable_size, now)
       IN /\ SetEngine(s)
          /\ flushLog' = IF Len(s.sstables) > Len(sstables)
                         THEN Append(flushLog, inserts + 1) ELSE flushLog
    /\ latest' = [latest EXCEPT ![key] = value]
    /\ inserts' = inserts + 1
    /\ allDistinct' = (allDistinct /\ latest[key] = None)
    /\ collided' = (collided \/ (Len(LSMTree_insert(Engine, key, value, max_memtable_size, now).sstables)
                                      > Len(sstables) /\ NameInUse(FlushName(now))))
    /\ lsm_error' = "ok"
    /\ UNCHANGED <<max_memtable_size, now, compacted, faults, crashed>>
    /\ UNCHANGED <<pc, frame, otherVars, treeVars, appVars>>

Compact ==
    /\ ~crashed
    /\ SetEngine(LSMTree_compact(Engine, now))
    /\ compacted' = TRUE
    /\ collided' = (collided \/ (Len(sstables) > 1 /\ NameInUse(CompactName(now))))
    /\ lsm_error' = "ok"
    /\ UNCHANGED <<max_memtable_size, now, latest, inserts, flushLog, allDistinct,
                   faults, crashed>>
    /\ UNCHANGED <<pc, frame, otherVars, treeVars, appVars>>

\* insert(key, value) whose append to the log fails: IOError("Failed to write to WAL").
InsertWalFails(key, value, written) ==
    /\ ~crashed
    /\ inserts < MaxOps
    /\ faults < MaxFaults
    /\ SetEngine(LSMTree_insert_wal_fails(Engine, key, value, written))
    /\ inserts' = inserts + 1
    /\ faults' = faults + 1
    /\ lsm_error' = "Failed to write to WAL"
    /\ UNCHANGED <<max_memtable_size, now, latest, flushLog, allDistinct, compacted,
                   collided, crashed>>
    /\ UNCHANGED <<pc, frame, otherVars, treeVars, appVars>>

\* insert(key, value) that fills the memtable and whose SSTable write fails:
\* IOError("Failed to flush memtable to SSTable").
InsertFlushFails(key, value, partial) ==
    /\ ~crashed
    /\ inserts < MaxOps
    /\ faults < MaxFaults
    /\ Len(DictSet(memtable, key, value)) >= max_memtable_size
    /\ SetEngine(LSMTree_insert_flush_fails(Engine, key, value, now, partial))
    /\ inserts' = inserts + 1
    /\ faults' = faults + 1
    /\ lsm_error' = "Failed to flush memtable to SSTable"
    /\ collided' = (collided \/ (partial /\ NameInUse(FlushName(now))))
    /\ UNCHANGED <<max_memtable_size, now, latest, flushLog, allDistinct, compacted, crashed>>
    /\ UNCHANGED <<pc, frame, otherVars, treeVars, appVars>>

\* insert(key, value) during whose flush the process dies.
InsertCrashes(key, value, written) ==
    /\ ~crashed
    /\ inserts < MaxOps
    /\ faults < MaxFaults
    /\ Len(DictSet(memtable, key, value)) >= max_memtable_size
    /\ SetEngine(LSMTree_insert_crashes(Engine, key, value, now, written))
    /\ inserts' = inserts + 1
    /\ faults' = faults + 1
    /\ crashed' = TRUE
    /\ lsm_error' = "crashed"
    /\ collided' = (collided \/ NameInUse(FlushName(now)))
    /\ UNCHANGED <<max_memtable_size, now, latest, flushLog, allDistinct, compacted>>
    /\ UNCHANGED <<pc, frame, otherVars, treeVars, appVars>>

\* A new LSMTree is constructed over the log and the directory, after a crash
\* or in place of a live instance.
Restart ==
    /\ SetEngine(LSMTree_init(Engine))
    /\ crashed' = FALSE
    /\ lsm_error' = "ok"
    /\ UNCHANGED <<max_memtable_size, now, latest, inserts, flushLog, allDistinct,
                   compacted, collided, faults>>
    /\ UNCHANGED <<pc, frame, otherVars, treeVars, appVars>>

\* clear() on the first instance.
Clear ==
    /\ ~crashed
    /\ SetEngine(LSMTree_clear(Engine))
    /\ latest' = [k \in Keys |-> None]
    /\ lsm_error' = "ok"
    /\ UNCHANGED <<max_memtable_size, now, inserts, flushLog, allDistinct, compacted,
                   collided, faults, crashed>>
    /\ UNCHANGED <<pc, frame, otherVars, treeVars, appVars>>

\* The second instance with its own directory and the shared wal.log.
OtherEngine ==
    [memtable |-> other_memtable, sstables |-> other_sstables, wal |-> wal,
     disk |-> other_disk]

\* insert(key, value) on the second instance.
OtherInsert(key, value) ==
    /\ ~crashed
    /\ inserts < MaxOps
    /\ LET s == LSMTree_insert(OtherEngine, key, value, max_memtable_size, now)
       IN /\ other_memtable' = s.memtable
          /\ other_sstables' = s.sstables
          /\ other_disk' = s.disk
          /\ wal' = s.wal
    /\ inserts' = inserts + 1
    /\ UNCHANGED <<memtable, sstables, disk, max_memtable_size, now, latest, flushLog,
                   allDistinct, compacted, collided, lsm_error, faults, crashed>>
    /\ UNCHANGED <<pc, frame, treeVars, appVars>>

\* The clock moves on between two calls.
Tick ==
    /\ now < MaxTime
    /\ now' = now + 1
    /\ UNCHANGED <<memtable, sstables, wal, disk, max_memtable_size,
                   latest, inserts, flushLog, allDistinct, compacted, collided,
                   lsm_error, faults, crashed>>
    /\ UNCHANGED <<pc, frame, otherVars, treeVars, appVars>>

\* insert(key, value) called from several threads, statement by statement: no
\* lock is taken anywhere in the class, a thread may be preempted between any
\* two of these statements.
Return(t) ==
    /\ pc' = [pc EXCEPT ![t] = "idle"]
    /\ frame' = [frame EXCEPT ![t] = NoFrame]

\* with open(self.wal_file, 'a') as f: f.write(f"{key}:{value}\n")
ThreadInsertWal(t, key, value) ==
    /\ ~crashed
    /\ pc[t] = "idle"
    /\ inserts < MaxThreadCalls
    /\ wal' = wal \o WalLine(key, value)
    /\ pc' = [pc EXCEPT ![t] = "set_memtable"]
    /\ frame' = [frame EXCEPT ![t] = [NoFrame EXCEPT !.key = key, !.value = value]]
    /\ inserts' = inserts + 1
    /\ UNCHANGED <<memtable, sstables, disk, max_memtable_size, now, latest, flushLog,
                   allDistinct, compacted, collided, lsm_error, faults, crashed>>
    /\ UNCHANGED <<otherVars, treeVars, appVars>>

\* self.memtable[key] = value
ThreadInsertMemtable(t) ==
    /\ pc[t] = "set_memtable"
    /\ memtable' = DictSet(memtable, frame[t].key, frame[t].value)
    /\ latest' = [latest EXCEPT ![frame[t].key] = frame[t].value]
    /\ pc' = [pc EXCEPT ![t] = "check_size"]
    /\ UNCHANGED <<sstables, wal, disk, max_memtable_size, now, inserts, flushLog,
                   allDistinct, compacted, collided, lsm_error, faults, crashed, frame>>
    /\ UNCHANGED <<otherVars, treeVars, appVars>>

\* if len(self.memtable) >= self.max_memtable_size: self._flush_memtable()
ThreadInsertCheck(t) ==
    /\ pc[t] = "check_size"
    /\ IF Len(memtable) >= max_memtable_size
       THEN pc' = [pc EXCEPT ![t] = "flush_begin"] /\ frame' = frame
       ELSE Return(t)
    /\ UNCHANGED <<memtable, sstables, wal, disk, max_memtable_size, now, latest,
                   inserts, flushLog, allDistinct, compacted, collided, lsm_error,
                   faults, crashed>>
    /\ UNCHANGED <<otherVars, treeVars, appVars>>

\* _flush_memtable: if not self.memtable: return; timestamp; sstable_name
ThreadFlushBegin(t) ==
    /\ pc[t] = "flush_begin"
    /\ IF memtable = <<>>
       THEN Return(t)
       ELSE /\ pc' = [pc EXCEPT ![t] = "write_sstable"]
            /\ frame' = [frame EXCEPT ![t].sstable_name = FlushName(now)]
    /\ UNCHANGED <<memtable, sstables, wal, disk, max_memtable_size, now, latest,
                   inserts, flushLog, allDistinct, compacted, collided, lsm_error,
                   faults, crashed>>
    /\ UNCHANGED <<otherVars, treeVars, appVars>>

\* with open(sstable_name, 'w') as f: json.dump(self.memtable, f)
ThreadFlushWrite(t) ==
    /\ pc[t] = "write_sstable"
    /\ disk' = WriteFile(disk, frame[t].sstable_name, memtable)
    /\ collided' = (collided \/ NameInUse(frame[t].sstable_name))
    /\ pc' = [pc EXCEPT ![t] = "publish"]
    /\ UNCHANGED <<memtable, sstables, wal, max_memtable_size, now, latest, inserts,
                   flushLog, allDistinct, compacted, lsm_error, faults, crashed, frame>>
    /\ UNCHANGED <<otherVars, treeVars, appVars>>

\* self.sstables.insert(0, sstable_name)
ThreadFlushPublish(t) ==
    /\ pc[t] = "publish"
    /\ sstables' = <<frame[t].sstable_name>> \o sstables
    /\ pc' = [pc EXCEPT ![t] = "clear_memtable"]
    /\ UNCHANGED <<memtable, wal, disk, max_memtable_size, now, latest, inserts,
                   flushLog, allDistinct, compacted, collided, lsm_error, faults,
                   crashed, frame>>
    /\ UNCHANGED <<otherVars, treeVars, appVars>>

\* self.memtable = OrderedDict()
ThreadFlushClear(t) ==
    /\ pc[t] = "clear_memtable"
    /\ memtable' = <<>>
    /\ pc' = [pc EXCEPT ![t] = "remove_wal"]
    /\ UNCHANGED <<sstables, wal, disk, max_memtable_size, now, latest, inserts,
                   flushLog, allDistinct, compacted, collided, lsm_error, faults,
                   crashed, frame>>
    /\ UNCHANGED <<otherVars, treeVars, appVars>>

\* os.remove(self.wal_file), OSError ignored; the call returns.
ThreadFlushRemoveWal(t) ==
    /\ pc[t] = "remove_wal"
    /\ wal' = <<>>
    /\ Return(t)
    /\ UNCHANGED <<memtable, sstables, disk, max_memtable_size, now, latest, inserts,
                   flushLog, allDistinct, compacted, collided, lsm_error, faults,
                   crashed>>
    /\ UNCHANGED <<otherVars, treeVars, appVars>>

\* -------------------------------------- bplus_tree.BPlusTree: operations
\* Keys of the tree are the integers 1..MaxKey.
MaxKey == 7
\* Number of insert calls when keys may be inserted again.
MaxPuts == 5
TreeKeys == 1..MaxKey
Degrees == {2, 3}
\* Number of delete calls made on the B+Tree.
MaxDeletes == 2
DefaultDegree == 3
DefaultMaxMemtableSize == 1000


\* Python list operations, with Python's 0-based indices.
At(q, index) == q[index + 1]
Slice(q, lo, hi) == SubSeq(q, lo + 1, hi)
ListInsert(q, index, x) == SubSeq(q, 1, index) \o <<x>> \o SubSeq(q, index + 1, Len(q))

\* Node(is_leaf)
Node(is_leaf) ==
    [keys |-> <<>>, values |-> <<>>, children |-> <<>>, is_leaf |-> is_leaf, next |-> 0]

min_keys(d) == d - 1
max_keys(d) == 2 * d - 1

\* index = 0; while index < len(keys) and key > keys[index]: index += 1
ScanGreater(keys, key) ==
    CHOOSE index \in 0..Len(keys) :
        /\ \A i \in 0..(index - 1) : key > At(keys, i)
        /\ (index = Len(keys) \/ ~(key > At(keys, index)))

\* index = 0; while index < len(keys) and key >= keys[index]: index += 1
ScanGreaterEq(keys, key) ==
    CHOOSE index \in 0..Len(keys) :
        /\ \A i \in 0..(index - 1) : key >= At(keys, i)
        /\ (index = Len(keys) \/ ~(key >= At(keys, index)))

\* RightLeaf without "new_node.next = child.next": the new leaf ends the chain.
RightLeafUnlinked(c, split_point) ==
    [Node(TRUE) EXCEPT !.keys = Slice(c.keys, split_point, Len(c.keys)),
                       !.values = Slice(c.values, split_point, Len(c.values))]

\* The two halves of a split leaf c: the new right leaf and what stays in c.
RightLeaf(c, split_point) ==
    [Node(TRUE) EXCEPT !.keys = Slice(c.keys, split_point, Len(c.keys)),
                       !.values = Slice(c.values, split_point, Len(c.values)),
                       !.next = c.next]
LeftLeaf(c, split_point, new_node) ==
    [c EXCEPT !.keys = Slice(c.keys, 0, split_point),
              !.values = Slice(c.values, 0, split_point),
              !.next = new_node]

\* RightInternal with the median kept as the first key of the new node.
RightInternalKeepsMedian(c, split_point) ==
    [Node(FALSE) EXCEPT !.keys = Slice(c.keys, split_point, Len(c.keys)),
                        !.children = Slice(c.children, split_point + 1, Len(c.children))]

\* The two halves of a split internal node c.
RightInternal(c, split_point) ==
    [Node(FALSE) EXCEPT !.keys = Slice(c.keys, split_point + 1, Len(c.keys)),
                        !.children = Slice(c.children, split_point + 1, Len(c.children))]
LeftInternal(c, split_point) ==
    [c EXCEPT !.keys = Slice(c.keys, 0, split_point),
              !.children = Slice(c.children, 0, split_point + 1)]

\* _split_child with parent.children.insert(index, new_node): the new node is
\* put before the child it was split from.
BPlusTree_split_child_new_first(ns, parent, index) ==
    LET child == At(ns[parent].children, index)
        c == ns[child]
        new_node == Len(ns) + 1
        split_point == Len(c.keys) \div 2
        middle_key == At(c.keys, split_point)
        new_parent ==
            [ns[parent] EXCEPT !.keys = ListInsert(@, index, middle_key),
                               !.children = ListInsert(@, index, new_node)]
    IN IF c.is_leaf
       THEN Append([ns EXCEPT ![child] = LeftLeaf(c, split_point, new_node),
                              ![parent] = new_parent],
                   RightLeaf(c, split_point))
       ELSE Append([ns EXCEPT ![child] = LeftInternal(c, split_point),
                              ![parent] = new_parent],
                   RightInternal(c, split_point))

\* _split_child(parent, index) on the arena ns; the new node is appended to ns.
BPlusTree_split_child(ns, parent, index) ==
    LET child == At(ns[parent].children, index)
        c == ns[child]
        new_node == Len(ns) + 1
        split_point == Len(c.keys) \div 2
        middle_key == At(c.keys, split_point)
        new_parent ==
            [ns[parent] EXCEPT !.keys = ListInsert(@, index, middle_key),
                               !.children = ListInsert(@, index + 1, new_node)]
    IN IF c.is_leaf
       THEN Append([ns EXCEPT ![child] = LeftLeaf(c, split_point, new_node),
                              ![parent] = new_parent],
                   RightLeaf(c, split_point))
       ELSE Append([ns EXCEPT ![child] = LeftInternal(c, split_point),
                              ![parent] = new_parent],
                   RightInternal(c, split_point))

\* _insert_non_full(node, key, value) for a tree of degree d.
RECURSIVE BPlusTree_insert_non_full(_, _, _, _, _)
BPlusTree_insert_non_full(ns, node, key, value, d) ==
    LET index == ScanGreater(ns[node].keys, key)
    IN IF ns[node].is_leaf
       THEN [ns EXCEPT ![node].keys = ListInsert(@, index, key),
                       ![node].values = ListInsert(@, index, value)]
       ELSE IF Len(ns[At(ns[node].children, index)].keys) = max_keys(d)
            THEN LET ns2 == BPlusTree_split_child(ns, node, index)
                     index2 == IF key > At(ns2[node].keys, index) THEN index + 1 ELSE index
                 IN BPlusTree_insert_non_full(ns2, At(ns2[node].children, index2),
                                              key, value, d)
            ELSE BPlusTree_insert_non_full(ns, At(ns[node].children, index), key, value, d)

\* insert(key, value): the tree [nodes, root] after the call.
BPlusTree_insert(tr, key, value, d) ==
    IF Len(tr.nodes[tr.root].keys) = max_keys(d)
    THEN LET new_root == Len(tr.nodes) + 1
             ns1 == Append(tr.nodes, [Node(FALSE) EXCEPT !.children = <<tr.root>>])
             ns2 == BPlusTree_split_child(ns1, new_root, 0)
         IN [nodes |-> BPlusTree_insert_non_full(ns2, new_root, key, value, d),
             root |-> new_root]
    ELSE [nodes |-> BPlusTree_insert_non_full(tr.nodes, tr.root, key, value, d),
          root |-> tr.root]

\* _search(node, key)
RECURSIVE BPlusTree_search(_, _, _)
BPlusTree_search(ns, node, key) ==
    IF ns[node].is_leaf
    THEN LET index == ScanGreater(ns[node].keys, key)
         IN IF index < Len(ns[node].keys) /\ key = At(ns[node].keys, index)
            THEN At(ns[node].values, index)
            ELSE None
    ELSE BPlusTree_search(ns, At(ns[node].children, ScanGreaterEq(ns[node].keys, key)), key)

\* get(key)
BPlusTree_get(tr, key) == BPlusTree_search(tr.nodes, tr.root, key)

\* _find_leaf(node, key)
RECURSIVE BPlusTree_find_leaf(_, _, _)
BPlusTree_find_leaf(ns, node, key) ==
    IF ns[node].is_leaf THEN node
    ELSE BPlusTree_find_leaf(ns, At(ns[node].children, ScanGreaterEq(ns[node].keys, key)), key)

\* The for loop of range_query over one leaf, from position i on: the results so
\* far and whether the loop returned (a key above end_key was met).
RECURSIVE ScanLeaf(_, _, _, _, _)
ScanLeaf(leaf, i, start_key, end_key, results) ==
    IF i >= Len(leaf.keys) THEN [results |-> results, returned |-> FALSE]
    ELSE IF start_key <= At(leaf.keys, i) /\ At(leaf.keys, i) <= end_key
         THEN ScanLeaf(leaf, i + 1, start_key, end_key,
                       Append(results, <<At(leaf.keys, i), At(leaf.values, i)>>))
         ELSE IF At(leaf.keys, i) > end_key
              THEN [results |-> results, returned |-> TRUE]
              ELSE ScanLeaf(leaf, i + 1, start_key, end_key, results)

\* WalkLeaves without "leaf = leaf.next": only the first leaf is scanned.
WalkFirstLeafOnly(ns, leaf, start_key, end_key, results) ==
    IF leaf = 0 THEN results
    ELSE ScanLeaf(ns[leaf], 0, start_key, end_key, results).results

\* The while loop of range_query: leaf after leaf along the next links.
RECURSIVE WalkLeaves(_, _, _, _, _)
WalkLeaves(ns, leaf, start_key, end_key, results) ==
    IF leaf = 0 THEN results
    ELSE LET r == ScanLeaf(ns[leaf], 0, start_key, end_key, results)
         IN IF r.returned THEN r.results
            ELSE WalkLeaves(ns, ns[leaf].next, start_key, end_key, r.results)

\* range_query(start_key, end_key)
BPlusTree_range_query(tr, start_key, end_key) ==
    WalkLeaves(tr.nodes, BPlusTree_find_leaf(tr.nodes, tr.root, start_key),
               start_key, end_key, <<>>)

\* list.index(x): the 0-based position of the first x of q.
ListIndex(q, x) == CHOOSE i \in 0..(Len(q) - 1) : At(q, i) = x /\ \A j \in 0..(i - 1) : At(q, j) # x
\* list.pop(index)
ListPop(q, index) == SubSeq(q, 1, index) \o SubSeq(q, index + 2, Len(q))

\* _delete_from_leaf without the "else: raise KeyError": an absent key is ignored.
BPlusTree_delete_from_leaf_silent(ns, node, key) ==
    IF \E i \in DOMAIN ns[node].keys : ns[node].keys[i] = key
    THEN LET index == ListIndex(ns[node].keys, key)
         IN [nodes |-> [ns EXCEPT ![node].keys = ListPop(@, index),
                                  ![node].values = ListPop(@, index)],
             error |-> "ok"]
    ELSE [nodes |-> ns, error |-> "ok"]

\* The delete operators give the arena after the call and the exception raised.
\* _delete_from_leaf(node, key)
BPlusTree_delete_from_leaf(ns, node, key) ==
    IF \E i \in DOMAIN ns[node].keys : ns[node].keys[i] = key
    THEN LET index == ListIndex(ns[node].keys, key)
         IN [nodes |-> [ns EXCEPT ![node].keys = ListPop(@, index),
                                  ![node].values = ListPop(@, index)],
             error |-> "ok"]
    ELSE [nodes |-> ns, error |-> "KeyError"]

\* _delete_internal_key(node, index): the body is "pass".
BPlusTree_delete_internal_key(ns, node, index) == ns

\* _fix_child(parent, index): the body is "pass".
BPlusTree_fix_child(ns, parent, index) == ns

\* _delete(node, key) and _delete_from_internal(node, key) for a tree of degree d.
RECURSIVE BPlusTree_delete_node(_, _, _, _)
RECURSIVE BPlusTree_delete_from_internal(_, _, _, _)
BPlusTree_delete_node(ns, node, key, d) ==
    IF ns[node].is_leaf
    THEN BPlusTree_delete_from_leaf(ns, node, key)
    ELSE BPlusTree_delete_from_internal(ns, node, key, d)

BPlusTree_delete_from_internal(ns, node, key, d) ==
    LET index == ScanGreater(ns[node].keys, key)
    IN IF index < Len(ns[node].keys) /\ key = At(ns[node].keys, index)
       THEN [nodes |-> BPlusTree_delete_internal_key(ns, node, index), error |-> "ok"]
       ELSE LET child == At(ns[node].children, index)
                ns2 == IF Len(ns[child].keys) = min_keys(d)
                       THEN BPlusTree_fix_child(ns, node, index)
                       ELSE ns
            IN BPlusTree_delete_node(ns2, child, key, d)

\* delete(key): the tree after the call and the exception it raised; the root is
\* replaced by its only child when the call did not raise.
BPlusTree_delete(tr, key, d) ==
    LET r == BPlusTree_delete_node(tr.nodes, tr.root, key, d)
    IN IF r.error # "ok"
       THEN [nodes |-> r.nodes, root |-> tr.root, error |-> r.error]
       ELSE IF ~r.nodes[tr.root].is_leaf /\ Len(r.nodes[tr.root].children) = 1
            THEN [nodes |-> r.nodes, root |-> At(r.nodes[tr.root].children, 0),
                  error |-> "ok"]
            ELSE [nodes |-> r.nodes, root |-> tr.root, error |-> "ok"]

\* ------------------------------------------- bplus_tree.BPlusTree: steps
Tree == [nodes |-> nodes, root |-> root]

\* The state right after BPlusTree(degree = d).
TreeFresh(d) ==
    /\ nodes = <<Node(TRUE)>>
    /\ root = 1
    /\ degree = d
    /\ stored = [k \in TreeKeys |-> None]
    /\ puts = 0
    /\ tree_error = "ok"
    /\ deletes = 0

TreeInit == \E d \in Degrees : TreeFresh(d)

\* insert(key, value) of a key that is not in the tree.
TreeInsertNew(key, value) ==
    /\ stored[key] = None
    /\ LET tr == BPlusTree_insert(Tree, key, value, degree)
       IN nodes' = tr.nodes /\ root' = tr.root
    /\ stored' = [stored EXCEPT ![key] = value]
    /\ puts' = puts + 1
    /\ tree_error' = "ok"
    /\ UNCHANGED <<degree, deletes, lsmVars, appVars>>

\* insert(key, value) of any key, in the tree already or not.
TreeInsert(key, value) ==
    /\ puts < MaxPuts
    /\ LET tr == BPlusTree_insert(Tree, key, value, degree)
       IN nodes' = tr.nodes /\ root' = tr.root
    /\ stored' = [stored EXCEPT ![key] = value]
    /\ puts' = puts + 1
    /\ tree_error' = "ok"
    /\ UNCHANGED <<degree, deletes, lsmVars, appVars>>

\* delete(key) of any key, in the tree or not.
TreeDelete(key) ==
    /\ deletes < MaxDeletes
    /\ LET tr == BPlusTree_delete(Tree, key, degree)
       IN /\ nodes' = tr.nodes
          /\ root' = tr.root
          /\ tree_error' = tr.error
          /\ stored' = IF tr.error = "ok" THEN [stored EXCEPT ![key] = None] ELSE stored
    /\ deletes' = deletes + 1
    /\ UNCHANGED <<degree, puts, lsmVars, appVars>>

\* ----------------------------------------------- app.LSMTree: operations
\* Number of insert and delete calls made on the in-memory LSM engine.
MaxAppOps == 5


AppEngine == [memtable |-> app_memtable, sstables |-> app_sstables]

\* _flush_to_disk()
App_LSMTree_flush_to_disk(s) ==
    [memtable |-> <<>>, sstables |-> Append(s.sstables, s.memtable)]

\* insert(key, value) with max_memtable_size m.
App_LSMTree_insert(s, key, value, m) ==
    LET s1 == [s EXCEPT !.memtable = DictSet(s.memtable, key, value)]
    IN IF Len(s1.memtable) >= m THEN App_LSMTree_flush_to_disk(s1) ELSE s1

\* delete(key) with max_memtable_size m.
App_LSMTree_delete(s, key, m) ==
    LET s1 == [s EXCEPT !.memtable = DictSet(s.memtable, key, None)]
    IN IF Len(s1.memtable) >= m THEN App_LSMTree_flush_to_disk(s1) ELSE s1

\* The first dict of tables that holds key gives the value; None when none does.
RECURSIVE FirstHit(_, _)
FirstHit(tables, key) ==
    IF tables = <<>> THEN None
    ELSE IF DictHas(Head(tables), key) THEN DictGet(Head(tables), key)
    ELSE FirstHit(Tail(tables), key)

\* get without reversed(): the oldest snapshot is asked first.
App_LSMTree_get_oldest_first(s, key) ==
    IF DictHas(s.memtable, key) THEN DictGet(s.memtable, key)
    ELSE FirstHit(s.sstables, key)

\* get(key)
App_LSMTree_get(s, key) ==
    IF DictHas(s.memtable, key) THEN DictGet(s.memtable, key)
    ELSE FirstHit(Reverse(s.sstables), key)

\* for key, value in table.items(): if start_key <= key <= end_key and key not
\* in result: result[key] = value
RECURSIVE AddMissingInRange(_, _, _, _)
AddMissingInRange(result, table, start_key, end_key) ==
    IF table = <<>> THEN result
    ELSE AddMissingInRange(
             IF /\ StrLeq(start_key, Head(table)[1]) /\ StrLeq(Head(table)[1], end_key)
                /\ ~DictHas(result, Head(table)[1])
             THEN Append(result, Head(table)) ELSE result,
             Tail(table), start_key, end_key)

RECURSIVE AddTablesInRange(_, _, _, _)
AddTablesInRange(result, tables, start_key, end_key) ==
    IF tables = <<>> THEN result
    ELSE AddTablesInRange(AddMissingInRange(result, Head(tables), start_key, end_key),
                          Tail(tables), start_key, end_key)

\* range_query(start_key, end_key): the result dict.
App_LSMTree_range_query(s, start_key, end_key) ==
    AddTablesInRange(ItemsInRange(s.memtable, start_key, end_key),
                     Reverse(s.sstables), start_key, end_key)

\* ---------------------------------------------------- app.LSMTree: steps
\* The state right after LSMTree(max_memtable_size = m).
AppFresh(m) ==
    /\ app_memtable = <<>>
    /\ app_sstables = <<>>
    /\ app_max_memtable_size = m
    /\ app_latest = [k \in Keys |-> None]
    /\ app_ops = 0

AppInit == \E m \in 1..MaxMemtable : AppFresh(m)

AppInsert(key, value) ==
    /\ app_ops < MaxAppOps
    /\ LET s == App_LSMTree_insert(AppEngine, key, value, app_max_memtable_size)
       IN app_memtable' = s.memtable /\ app_sstables' = s.sstables
    /\ app_latest' = [app_latest EXCEPT ![key] = value]
    /\ app_ops' = app_ops + 1
    /\ UNCHANGED <<app_max_memtable_size, lsmVars, treeVars>>

AppDelete(key) ==
    /\ app_ops < MaxAppOps
    /\ LET s == App_LSMTree_delete(AppEngine, key, app_max_memtable_size)
       IN app_memtable' = s.memtable /\ app_sstables' = s.sstables
    /\ app_latest' = [app_latest EXCEPT ![key] = None]
    /\ app_ops' = app_ops + 1
    /\ UNCHANGED <<app_max_memtable_size, lsmVars, treeVars>>

\* ----------------------------------------------------------- specifications
\* Each specification runs one engine; the other two stay as constructed.
vars == <<lsmVars, treeVars, appVars>>

\* The file-backed LSM engine: insert, compact and the clock.
Init == LsmInit /\ TreeFresh(DefaultDegree) /\ AppFresh(DefaultMaxMemtableSize)
Next ==
    \/ \E key \in Keys, value \in Values : Insert(key, value)
    \/ Compact
    \/ Tick
Spec == Init /\ [][Next]_vars

\* The file-backed LSM engine when appends to the log and SSTable writes may
\* fail; the calls follow each other within one reading of the clock.
FaultNext ==
    \/ \E key \in Keys, value \in Values : Insert(key, value)
    \/ \E key \in Keys, value \in Values :
          \E written \in 0..(Len(WalLine(key, value)) - 1) : InsertWalFails(key, value, written)
    \/ \E key \in Keys, value \in Values, partial \in BOOLEAN :
          InsertFlushFails(key, value, partial)
SpecFault == Init /\ [][FaultNext]_vars

\* The file-backed LSM engine with restarts: a new instance is constructed over
\* the storage a live one leaves.
RestartNext ==
    \/ \E key \in Keys, value \in Values : Insert(key, value)
    \/ Compact
    \/ Restart
    \/ Tick
SpecRestart == Init /\ [][RestartNext]_vars

\* The file-backed LSM engine when the process may die inside a flush and a new
\* instance is constructed over what is left in storage.
CrashNext ==
    \/ \E key \in Keys, value \in Values : Insert(key, value)
    \/ \E key \in Keys, value \in Values, written \in BOOLEAN :
          InsertCrashes(key, value, written)
    \/ Restart
    \/ Tick
SpecCrash == Init /\ [][CrashNext]_vars

\* The file-backed LSM engine with insert called from two threads.
ThreadNext ==
    \/ \E t \in Threads, key \in Keys, value \in Values : ThreadInsertWal(t, key, value)
    \/ \E t \in Threads : ThreadInsertMemtable(t)
    \/ \E t \in Threads : ThreadInsertCheck(t)
    \/ \E t \in Threads : ThreadFlushBegin(t)
    \/ \E t \in Threads : ThreadFlushWrite(t)
    \/ \E t \in Threads : ThreadFlushPublish(t)
    \/ \E t \in Threads : ThreadFlushClear(t)
    \/ \E t \in Threads : ThreadFlushRemoveWal(t)
    \/ Tick
SpecThreads == Init /\ [][ThreadNext]_vars

\* Two instances of the file-backed LSM engine in one working directory, each
\* with its own sstable_dir.
TwoNext ==
    \/ \E key \in Keys, value \in Values : Insert(key, value)
    \/ Clear
    \/ \E key \in Keys, value \in Values : OtherInsert(key, value)
    \/ Tick
SpecTwo == Init /\ [][TwoNext]_vars

\* The B+Tree under inserts of distinct keys.
TreeSpecInit ==
    TreeInit /\ LsmFresh(DefaultMaxMemtableSize) /\ AppFresh(DefaultMaxMemtableSize)
TreeNext == \E key \in TreeKeys, value \in Values : TreeInsertNew(key, value)
SpecTree == TreeSpecInit /\ [][TreeNext]_vars

\* The B+Tree under inserts of any keys, a key possibly more than once.
UpsertNext == \E key \in TreeKeys, value \in Values : TreeInsert(key, value)
SpecUpsert == TreeSpecInit /\ [][UpsertNext]_vars

\* The B+Tree under inserts of keys it does not hold and deletes of any keys;
\* the value a key is inserted with differs from that of its neighbours.
ValueFor(key) == IF key % 2 = 1 THEN <<"x">> ELSE <<"y">>
DeleteNext ==
    \/ \E key \in TreeKeys : TreeInsertNew(key, ValueFor(key))
    \/ \E key \in TreeKeys : TreeDelete(key)
SpecDelete == TreeSpecInit /\ [][DeleteNext]_vars

\* The in-memory LSM engine of app.py: insert and delete.
AppSpecInit ==
    AppInit /\ LsmFresh(DefaultMaxMemtableSize) /\ TreeFresh(DefaultDegree)
AppNext ==
    \/ \E key \in Keys, value \in Values : AppInsert(key, value)
    \/ \E key \in Keys : AppDelete(key)
SpecApp == AppSpecInit /\ [][AppNext]_vars

\* ------------------------------------------- bplus_tree.BPlusTree: properties
\* The keys that have been inserted.
StoredKeys == { k \in TreeKeys : stored[k] # None }

\* The elements of a set of integers in ascending order.
RECURSIVE Ascending(_)
Ascending(ks) ==
    IF ks = {} THEN <<>>
    ELSE LET k == CHOOSE x \in ks : \A y \in ks : x <= y
         IN <<k>> \o Ascending(ks \ {k})

\* The leaf reached from node through first children only.
RECURSIVE LeftmostLeaf(_, _)
LeftmostLeaf(ns, node) ==
    IF ns[node].is_leaf THEN node ELSE LeftmostLeaf(ns, At(ns[node].children, 0))

\* The leaves of the chain that starts at leaf, in chain order.
RECURSIVE Chain(_, _)
Chain(ns, leaf) == IF leaf = 0 THEN <<>> ELSE <<leaf>> \o Chain(ns, ns[leaf].next)

\* The keys of the leaves of a chain, leaf after leaf.
RECURSIVE KeysOf(_, _)
KeysOf(ns, leaves) ==
    IF leaves = <<>> THEN <<>> ELSE ns[Head(leaves)].keys \o KeysOf(ns, Tail(leaves))

\* The leaves of the subtree of node.
RECURSIVE LeavesUnder(_, _)
LeavesUnder(ns, node) ==
    IF ns[node].is_leaf THEN {node}
    ELSE UNION { LeavesUnder(ns, ns[node].children[i]) : i \in DOMAIN ns[node].children }

\* Number of levels from node down to its leftmost leaf.
RECURSIVE Height(_, _)
Height(ns, node) ==
    IF ns[node].is_leaf THEN 1 ELSE 1 + Height(ns, At(ns[node].children, 0))

LeafChain == Chain(nodes, LeftmostLeaf(nodes, root))

\* C2: get(k) returns the value of the most recent insert(k, v), also when k was
\* inserted again with a new value.
C2_GetReturnsLastWrite ==
    \A k \in TreeKeys : BPlusTree_get(Tree, k) = stored[k]

\* C3: after inserting distinct keys, the leaf chain from the leftmost leaf holds
\* exactly the inserted keys, each once, in strictly ascending order, and every
\* leaf of the tree is on the chain.
C3_LeafChainAscending ==
    /\ KeysOf(nodes, LeafChain) = Ascending(StoredKeys)
    /\ { LeafChain[i] : i \in DOMAIN LeafChain } = LeavesUnder(nodes, root)

\* A tree of three levels whose chain has at least four leaves.
C3_Witness ==
    /\ Height(nodes, root) >= 3
    /\ Len(LeafChain) >= 4
    /\ StoredKeys = TreeKeys

\* The pairs (k, stored[k]) for the inserted keys k of [start_key, end_key],
\* ascending.
PairsInRange(start_key, end_key) ==
    LET ks == Ascending({ k \in StoredKeys : start_key <= k /\ k <= end_key })
    IN [i \in DOMAIN ks |-> <<ks[i], stored[ks[i]]>>]

\* C7: range_query(start, end) with start <= end returns exactly the pairs of the
\* tree with start <= key <= end, in ascending key order.
C7_RangeQueryExact ==
    \A start_key \in 0..(MaxKey + 1), end_key \in 0..(MaxKey + 1) :
        start_key <= end_key =>
            BPlusTree_range_query(Tree, start_key, end_key)
                = PairsInRange(start_key, end_key)

\* A scan that starts inside a leaf that is not the leftmost one, skips a key
\* below start and crosses at least two links.
C7_Witness ==
    /\ Height(nodes, root) >= 3
    /\ \E start_key \in TreeKeys, end_key \in TreeKeys :
          LET first == BPlusTree_find_leaf(nodes, root, start_key)
          IN /\ first # LeftmostLeaf(nodes, root)
             /\ nodes[first].keys # <<>> /\ At(nodes[first].keys, 0) < start_key
             /\ nodes[first].next # 0
             /\ Len(BPlusTree_range_query(Tree, start_key, end_key))
                    > Len(nodes[first].keys) + Len(nodes[nodes[first].next].keys)
             /\ end_key < MaxKey

\* A key is in the tree when a leaf of the tree holds it.
InTree(k) ==
    \E leaf \in LeavesUnder(nodes, root) :
        \E i \in DOMAIN nodes[leaf].keys : nodes[leaf].keys[i] = k

\* C11: delete(k) of a key that no leaf of the tree holds raises KeyError, in
\* every tree that inserts and deletes build, and leaves the nodes, their keys,
\* values, children and next links and the root as they were.
C11_DeleteAbsentRaisesKeyError ==
    \A k \in TreeKeys :
        ~InTree(k) =>
            LET tr == BPlusTree_delete(Tree, k, degree)
            IN tr.error = "KeyError" /\ tr.nodes = nodes /\ tr.root = root

\* A delete has just raised KeyError on a tree of three levels in which an
\* earlier delete has emptied a leaf.
C11_Witness ==
    /\ tree_error = "KeyError"
    /\ Height(nodes, root) >= 3
    /\ \E leaf \in LeavesUnder(nodes, root) : nodes[leaf].keys = <<>>

\* The keys range_query returns over the whole key space.
RangeKeys(tr) ==
    LET res == BPlusTree_range_query(tr, 0, MaxKey + 1)
    IN { res[i][1] : i \in DOMAIN res }

\* C12: a delete(k) of a key of the tree that returns without an error removes
\* k: afterwards get(k) is None, range_query does not return k, and get of every
\* other key is what it was; also for a k equal to a separator.
C12_DeleteRemovesKey ==
    [][\A k \in TreeKeys :
          (TreeDelete(k) /\ InTree(k) /\ tree_error' = "ok") =>
              /\ BPlusTree_get(Tree', k) = None
              /\ k \notin RangeKeys(Tree')
              /\ \A j \in TreeKeys \ {k} : BPlusTree_get(Tree', j) = BPlusTree_get(Tree, j)]_vars

\* The nodes of the subtree of node, node included.
RECURSIVE NodesUnder(_, _)
NodesUnder(ns, node) ==
    IF ns[node].is_leaf THEN {node}
    ELSE {node} \cup UNION { NodesUnder(ns, ns[node].children[i]) :
                                 i \in DOMAIN ns[node].children }

\* C15: after any inserts and deletes every node other than the root holds
\* between min_keys and max_keys keys, and the root at most max_keys.
C15_NodeOccupancy ==
    \A n \in NodesUnder(nodes, root) :
        /\ Len(nodes[n].keys) <= max_keys(degree)
        /\ n # root => Len(nodes[n].keys) >= min_keys(degree)

\* What _split_child(parent, index) on the arena ns has to leave behind.
SplitIsCorrect(ns, parent, index) ==
    LET child == At(ns[parent].children, index)
        c == ns[child]
        median == At(c.keys, Len(c.keys) \div 2)
        ns2 == BPlusTree_split_child(ns, parent, index)
        new_node == Len(ns2)
        left == ns2[child]
        right == ns2[new_node]
    IN /\ Len(ns2) = Len(ns) + 1
       /\ \A n \in DOMAIN ns \ {parent, child} : ns2[n] = ns[n]
       /\ ns2[parent].keys = ListInsert(ns[parent].keys, index, median)
       /\ ns2[parent].children = ListInsert(ns[parent].children, index + 1, new_node)
       /\ At(ns2[parent].children, index) = child
       /\ left.is_leaf = c.is_leaf /\ right.is_leaf = c.is_leaf
       /\ c.is_leaf =>
              /\ left.keys \o right.keys = c.keys
              /\ left.values \o right.values = c.values
              /\ \A i \in DOMAIN c.keys :
                     /\ c.keys[i] < median => \E j \in DOMAIN left.keys : left.keys[j] = c.keys[i]
                     /\ c.keys[i] > median => \E j \in DOMAIN right.keys : right.keys[j] = c.keys[i]
              /\ Head(right.keys) = median
       /\ ~c.is_leaf =>
              /\ left.keys \o <<median>> \o right.keys = c.keys
              /\ left.children \o right.children = c.children
              /\ Len(left.children) = Len(left.keys) + 1
              /\ Len(right.children) = Len(right.keys) + 1
       /\ min_keys(degree) <= Len(left.keys) /\ Len(left.keys) <= max_keys(degree)
       /\ min_keys(degree) <= Len(right.keys) /\ Len(right.keys) <= max_keys(degree)

\* The new root insert puts above a full root before it splits it.
WithNewRoot(ns, r) == Append(ns, [Node(FALSE) EXCEPT !.children = <<r>>])

\* C16: wherever insert splits a full child (a full child of an internal node,
\* or a full root under its new root), the parent gains one separator, the
\* median of the child, at index, and one child at index + 1; a leaf keeps the
\* keys below the median and the new leaf gets the median and the keys above; an
\* internal node gives the median up; both halves hold min_keys..max_keys keys.
C16_SplitIsCorrect ==
    /\ \A parent \in NodesUnder(nodes, root) :
           ~nodes[parent].is_leaf =>
               \A index \in 0..(Len(nodes[parent].children) - 1) :
                   Len(nodes[At(nodes[parent].children, index)].keys) = max_keys(degree)
                       => SplitIsCorrect(nodes, parent, index)
    /\ Len(nodes[root].keys) = max_keys(degree)
           => SplitIsCorrect(WithNewRoot(nodes, root), Len(nodes) + 1, 0)

\* Earlier splits have built an internal root that is full, with a full leaf
\* among its children: both kinds of split are due.
C16_Witness ==
    /\ ~nodes[root].is_leaf
    /\ Len(nodes[root].keys) = max_keys(degree)
    /\ \E i \in DOMAIN nodes[root].children :
           /\ nodes[nodes[root].children[i]].is_leaf
           /\ Len(nodes[nodes[root].children[i]].keys) = max_keys(degree)

\* The depths at which the leaves of the subtree of node lie, node being at depth.
RECURSIVE LeafDepths(_, _, _)
LeafDepths(ns, node, depth) ==
    IF ns[node].is_leaf THEN {depth}
    ELSE UNION { LeafDepths(ns, ns[node].children[i], depth + 1) :
                     i \in DOMAIN ns[node].children }

Balanced(tr) == Cardinality(LeafDepths(tr.nodes, tr.root, 0)) = 1

\* C17: after every insert and delete all leaves are at the same depth, and a
\* call makes the tree higher only by one level and only by splitting a full
\* root: the new root is a new node with one separator and two children, the
\* old root being the first.
C17_BalancedGrowsAtRoot ==
    [][/\ Balanced(Tree')
       /\ Height(nodes', root') > Height(nodes, root) =>
              /\ Len(nodes[root].keys) = max_keys(degree)
              /\ root' \notin DOMAIN nodes
              /\ ~nodes'[root'].is_leaf
              /\ At(nodes'[root'].children, 0) = root
              /\ Len(nodes'[root'].keys) = 1 /\ Len(nodes'[root'].children) = 2
              /\ Height(nodes', root') = Height(nodes, root) + 1]_vars

\* A tree that has grown to three levels and in which a delete has emptied a
\* leaf without an error.
C17_Witness ==
    /\ Height(nodes, root) >= 3
    /\ tree_error = "ok"
    /\ deletes >= 1
    /\ \E leaf \in LeavesUnder(nodes, root) : nodes[leaf].keys = <<>>

\* ------------------------------------------- lsm_tree.LSMTree: properties
\* The keys with start_key <= key <= end_key that have been inserted.
LiveInRange(start_key, end_key) ==
    { k \in Keys : latest[k] # None /\ StrLeq(start_key, k) /\ StrLeq(k, end_key) }

\* The pairs (k, latest[k]) of the keys of ks, in ascending key order.
RECURSIVE AscendingPairs(_)
AscendingPairs(ks) ==
    IF ks = {} THEN <<>>
    ELSE LET k == CHOOSE x \in ks : \A y \in ks : StrLeq(x, y)
         IN <<<<k, latest[k]>>>> \o AscendingPairs(ks \ {k})

\* The keys held by the SSTables of the list that can be read.
SnapshotKeys ==
    UNION { DictKeys(disk[sstables[i]]) : i \in { j \in DOMAIN sstables : sstables[j] \in DOMAIN disk } }

\* line occurs in w as a run of consecutive characters.
Occurs(line, w) ==
    \E i \in 0..(Len(w) - Len(line)) : SubSeq(w, i + 1, i + Len(line)) = line

\* C1: after any sequence of insert and compact calls, get(k) returns the value
\* of the most recent insert(k, v) for every key, and absence for a key never
\* inserted.
C1_GetReturnsLatestInsert ==
    \A k \in Keys : LSMTree_get(Engine, k) = latest[k]

\* C4: on a fresh engine, inserting distinct keys flushes exactly at every
\* max_memtable_size-th insert; a flush leaves the memtable empty, removes the
\* WAL and adds one new SSTable at the head of the list, and a flushed key is
\* afterwards returned by get from the snapshots.
C4_FlushAtEveryMthInsert ==
    (allDistinct /\ ~compacted) =>
        /\ flushLog = [i \in 1..(inserts \div max_memtable_size) |-> i * max_memtable_size]
        /\ (inserts % max_memtable_size = 0) => (memtable = <<>> /\ wal = <<>>)
        /\ Len(sstables) = Len(flushLog)
        /\ \A i, j \in DOMAIN sstables : i # j => sstables[i] # sstables[j]
        /\ \A k \in Keys :
              (latest[k] # None /\ ~DictHas(memtable, k)) =>
                  GetFromSSTables(disk, sstables, k) = latest[k]

\* C5: a compact call on an engine holding at least one snapshot leaves get(key)
\* unchanged for every key present in a snapshot, leaves the memtable unchanged
\* and leaves exactly one snapshot in the SSTable list.
C5_CompactPreservesValues ==
    [][(Compact /\ Len(sstables) >= 1) =>
          /\ \A k \in SnapshotKeys :
                LSMTree_get([memtable |-> memtable', sstables |-> sstables',
                             wal |-> wal', disk |-> disk'], k)
                    = LSMTree_get(Engine, k)
          /\ memtable' = memtable
          /\ Len(sstables') = 1]_vars

\* C6: range_query(start, end) returns exactly one (key, value) pair per live key
\* of [start, end], holding the newest value, in ascending key order (stated for
\* the runs in which every snapshot got a name of its own).
C6_RangeQueryMergedAscending ==
    ~collided => \A start_key \in Keys, end_key \in Keys :
        LSMTree_range_query(Engine, start_key, end_key)
            = AscendingPairs(LiveInRange(start_key, end_key))

\* C8: the memtable holds only entries recorded in the WAL, and a new instance
\* constructed over the same WAL rebuilds a memtable equal to the current one.
C8_RecoveryRebuildsMemtable ==
    /\ \A i \in DOMAIN memtable : Occurs(WalLine(memtable[i][1], memtable[i][2]), wal)
    /\ LSMTree_recover_from_wal(wal) = memtable

\* C13: insert appends to the WAL before it touches the memtable: every memtable
\* entry has its line in the WAL, and a call whose append to the WAL fails raises
\* and leaves the memtable and the SSTable list exactly as they were.
C13_WalFailureLeavesEngine ==
    [][/\ \A i \in DOMAIN memtable' :
              Occurs(WalLine(memtable'[i][1], memtable'[i][2]), wal')
       /\ lsm_error' = "Failed to write to WAL" =>
              (memtable' = memtable /\ sstables' = sstables)]_vars

\* An insert has just failed on its WAL append, part of its line in the file,
\* with entries in the memtable and a snapshot in the list.
C13_Witness ==
    /\ lsm_error = "Failed to write to WAL"
    /\ wal # <<>> /\ wal[Len(wal)] # NL
    /\ memtable # <<>>
    /\ sstables # <<>>

\* C14: a new instance constructed over the directory of a live one lists the
\* snapshots in the same newest-first order, so that every get(k) answers as
\* before the restart; stated for an empty log (nothing to recover) and for
\* directories in which no name was used twice.
C14_RestartKeepsOrder ==
    [][(Restart /\ ~collided /\ wal = <<>>) =>
          /\ sstables' = sstables
          /\ \A k \in Keys : LSMTree_get(Engine', k) = LSMTree_get(Engine, k)]_vars

\* C18: when the process dies inside the flush an insert has started (while the
\* SSTable is written, or after it and before the WAL is removed), a new
\* instance constructed over the storage still returns, for every other key
\* whose latest value get returned before the call, that value.
C18_FlushCrashLosesNothing ==
    [][\A key \in Keys, value \in Values, written \in BOOLEAN :
          InsertCrashes(key, value, written) =>
              \A k \in Keys \ {key} :
                  (latest[k] # None /\ LSMTree_get(Engine, k) = latest[k])
                      => LSMTree_get(LSMTree_init(Engine'), k) = latest[k]]_vars

\* C19: no flush and no compaction writes a snapshot under a name in use; the
\* names of the list are pairwise different, each strictly newer than those
\* after it, and each names a file of the directory (a compaction does not
\* delete what it has just written); also within one reading of the clock.
C19_SnapshotNamesUnique ==
    /\ ~collided
    /\ \A i \in DOMAIN sstables, j \in DOMAIN sstables :
           i < j => (sstables[i] # sstables[j] /\ sstables[i].ts > sstables[j].ts)
    /\ \A i \in DOMAIN sstables : sstables[i] \in DOMAIN disk

\* C20: an insert whose flush cannot write the SSTable raises and is not
\* applied: for a pair (key, value) that get did not return before the call,
\* afterwards the memtable does not hold it, the WAL has no line of it and
\* get(key) does not return value.
C20_FailedFlushNotApplied ==
    [][\A key \in Keys, value \in Values, partial \in BOOLEAN :
          (InsertFlushFails(key, value, partial) /\ LSMTree_get(Engine, key) # value
               /\ ~Occurs(WalLine(key, value), wal)) =>
              /\ lsm_error' = "Failed to flush memtable to SSTable"
              /\ ~(DictHas(memtable', key) /\ DictGet(memtable', key) = value)
              /\ ~Occurs(WalLine(key, value), wal')
              /\ LSMTree_get(Engine', key) # value]_vars

\* C21: when no insert is in flight and no snapshot name was used twice, get
\* returns for every key the value of its latest acknowledged insert, and the
\* key is held by the memtable or by a listed snapshot.
C21_NoAcknowledgedWriteLost ==
    ((\A t \in Threads : pc[t] = "idle") /\ ~collided) =>
        \A k \in Keys :
            latest[k] # None =>
                /\ LSMTree_get(Engine, k) = latest[k]
                /\ (DictHas(memtable, k) \/ k \in SnapshotKeys)

\* C22: an insert (with the flush it may start) or a clear on the first
\* instance leaves the WAL entries the second instance would replay as they
\* were: when the log rebuilt the second instance's memtable before the call,
\* it still does afterwards.
C22_WalOwnedByOneInstance ==
    [][(Clear \/ \E key \in Keys, value \in Values : Insert(key, value)) =>
          (LSMTree_recover_from_wal(wal) = other_memtable
               => LSMTree_recover_from_wal(wal') = other_memtable)]_vars

\* ---------------------------------------------------- app.LSMTree: properties
\* C9: after delete(k), get(k) returns absence, whether or not k was inserted
\* and whatever older snapshots hold, until k is inserted again (then get(k)
\* returns the inserted value); delete flushes at the same threshold as insert,
\* so the memtable never stays at max_memtable_size entries.
C9_DeleteIsTombstone ==
    /\ \A k \in Keys : App_LSMTree_get(AppEngine, k) = app_latest[k]
    /\ Len(app_memtable) < app_max_memtable_size

\* A flushed tombstone of k lies above an older snapshot that holds a value of k.
C9_Witness ==
    \E k \in Keys :
        /\ app_latest[k] = None
        /\ ~DictHas(app_memtable, k)
        /\ \E i, j \in DOMAIN app_sstables :
              /\ i < j
              /\ DictHas(app_sstables[i], k) /\ DictGet(app_sstables[i], k) # None
              /\ DictHas(app_sstables[j], k) /\ DictGet(app_sstables[j], k) = None

\* C10: a key whose newest entry is a tombstone does not appear in the result of
\* range_query.
C10_RangeQuerySkipsTombstones ==
    \A start_key \in Keys, end_key \in Keys :
        \A k \in DictKeys(App_LSMTree_range_query(AppEngine, start_key, end_key)) :
            app_latest[k] # None

====
